---- MODULE Spec2Model ----
(***************************************************************************)
(* A model of splat's split.py: the symbol-table builders gather_c_funcs   *)
(* and gather_c_variables, the segment loop of main with its two passes,   *)
(* write_ldscript, write_ld_addrs_h and the undefined_funcs.txt report.    *)
(*                                                                         *)
(* Text is modelled as Python str values: a string is a sequence of        *)
(* one-character strings, so that slicing, splitting, joining, upper() and *)
(* sorted() are computed character by character as the interpreter does.   *)
(***************************************************************************)
EXTENDS Integers, Sequences, FiniteSets, TLC

VARIABLES
    config,                 \* config['segments']: the raw descriptors, a list
    options,                \* config['options'] with "modes" set (line 150)
    funcs_h,                \* include/functions.h: its lines, or NoFile
    symbol_addrs_txt,       \* tools/symbol_addrs.txt: its lines, or NoFile
    variables_h,            \* include/variables.h: its lines, or NoFile
    undefined_syms_txt,     \* undefined_syms.txt: its lines, or NoFile
    c_funcs,                \* dict address -> name        (line 153)
    c_func_labels_to_add,   \* set of names                (line 153)
    c_vars,                 \* dict address -> name        (line 154)
    segments,               \* list of constructed segment objects
    ld_sections,            \* list of str
    ld_symbols,             \* OrderedDict, as a list of <<symbol, addr>>
    seen_segment_names,     \* set of str
    defined_funcs,          \* set of str
    undefined_funcs,        \* set of str
    i,                      \* the index of the segment loop (0-based)
    pc,                     \* the position of main
    calls,                  \* the plugin methods invoked so far, in order
    artifacts,              \* the segments whose split() wrote its files
    files                   \* the files main itself has written

vars == <<config, options, funcs_h, symbol_addrs_txt, variables_h,
          undefined_syms_txt, c_funcs, c_func_labels_to_add, c_vars,
          segments, ld_sections, ld_symbols, seen_segment_names,
          defined_funcs, undefined_funcs, i, pc, calls, artifacts, files>>

----------------------------------------------------------------------------
(* Python str, list, set and dict operations                               *)

\* The printable ASCII characters in code-point order: 32 (space) to 95, and
\* 97 to 126.
AsciiLow ==
    <<" ","!","\"","#","$","%","&","'","(",")","*","+",",","-",".","/","0","1","2","3","4","5","6","7","8","9",":",";","<","=",">","?","@","A","B","C","D","E","F","G","H","I","J","K","L","M","N","O","P","Q","R","S","T","U","V","W","X","Y","Z","[","\\","]","^","_">>
AsciiHigh ==
    <<"a","b","c","d","e","f","g","h","i","j","k","l","m","n","o","p","q","r","s","t","u","v","w","x","y","z","{","|","}","~">>

\* ord(c) of Python; "\n" is 10.
Ord(c) ==
    IF c = "\n" THEN 10
    ELSE IF \E k \in 1..Len(AsciiLow) : AsciiLow[k] = c
    THEN 31 + (CHOOSE k \in 1..Len(AsciiLow) : AsciiLow[k] = c)
    ELSE 96 + (CHOOSE k \in 1..Len(AsciiHigh) : AsciiHigh[k] = c)

\* chr(n) of Python, for the code points above.
Chr(n) == IF n = 10 THEN "\n" ELSE IF n < 96 THEN AsciiLow[n - 31] ELSE AsciiHigh[n - 96]

\* str.upper() on one character (ASCII letters only).
UpperChar(c) == IF Ord(c) >= 97 /\ Ord(c) <= 122 THEN Chr(Ord(c) - 32) ELSE c

\* str.upper()
Upper(s) == [k \in 1..Len(s) |-> UpperChar(s[k])]

Min(a, b) == IF a < b THEN a ELSE b
Max(a, b) == IF a > b THEN a ELSE b

\* A slice bound as Python clamps it: negative counts from the end.
SliceIndex(n, len) == IF n < 0 THEN Max(len + n, 0) ELSE Min(n, len)

\* s[a:b] of Python (0-based, end exclusive, out-of-range bounds clamped).
PySlice(s, a, b) == SubSeq(s, SliceIndex(a, Len(s)) + 1, SliceIndex(b, Len(s)))

\* s[a:] of Python.
PySliceFrom(s, a) == PySlice(s, a, Len(s))

\* s.startswith(p)
StartsWith(s, p) == Len(s) >= Len(p) /\ SubSeq(s, 1, Len(p)) = p

\* s.find(c) for a one-character c: the 0-based index, -1 when absent.
Find(s, c) ==
    IF \E k \in 1..Len(s) : s[k] = c
    THEN (CHOOSE k \in 1..Len(s) : s[k] = c /\ \A j \in 1..(k - 1) : s[j] # c) - 1
    ELSE -1

Whitespace == {" ", "\n"}

RECURSIVE LStrip(_)
LStrip(s) == IF s # <<>> /\ s[1] \in Whitespace THEN LStrip(Tail(s)) ELSE s

RECURSIVE RStrip(_)
RStrip(s) ==
    IF s # <<>> /\ s[Len(s)] \in Whitespace THEN RStrip(SubSeq(s, 1, Len(s) - 1)) ELSE s

\* s.strip()
Strip(s) == LStrip(RStrip(s))

\* s.split(sep) for a one-character sep: always at least one piece.
RECURSIVE Split(_, _)
Split(s, sep) ==
    LET k == Find(s, sep)
    IN  IF k = -1 THEN <<s>>
        ELSE <<SubSeq(s, 1, k)>> \o Split(SubSeq(s, k + 2, Len(s)), sep)

\* s.replace(c, by) for a one-character c.
RECURSIVE Replace(_, _, _)
Replace(s, c, by) ==
    IF s = <<>> THEN <<>>
    ELSE (IF s[1] = c THEN by ELSE <<s[1]>>) \o Replace(Tail(s), c, by)

\* sep.join(list)
RECURSIVE Join(_, _)
Join(sep, list) ==
    IF list = <<>> THEN <<>>
    ELSE IF Len(list) = 1 THEN list[1]
    ELSE list[1] \o sep \o Join(sep, Tail(list))

\* a < b on str: code points, left to right, a proper prefix first.
RECURSIVE StrLess(_, _)
StrLess(a, b) ==
    IF b = <<>> THEN FALSE
    ELSE IF a = <<>> THEN TRUE
    ELSE IF a[1] # b[1] THEN Ord(a[1]) < Ord(b[1])
    ELSE StrLess(Tail(a), Tail(b))

\* sorted(S) for a set of str.
RECURSIVE Sorted(_)
Sorted(S) ==
    IF S = {} THEN <<>>
    ELSE LET m == CHOOSE x \in S : \A y \in S \ {x} : StrLess(x, y)
         IN  <<m>> \o Sorted(S \ {m})

HexDigits == <<"0","1","2","3","4","5","6","7","8","9","A","B","C","D","E","F">>

\* The value of one digit character in base 16 (either case), -1 for others.
DigitValue(c) ==
    IF \E k \in 1..16 : HexDigits[k] = UpperChar(c)
    THEN (CHOOSE k \in 1..16 : HexDigits[k] = UpperChar(c)) - 1
    ELSE -1

RECURSIVE ParseDigits(_, _, _)
ParseDigits(s, base, acc) ==
    IF s = <<>> THEN acc
    ELSE ParseDigits(Tail(s), base, acc * base + DigitValue(s[1]))

\* int(s, 0): base 16 after a 0x prefix, base 10 otherwise.
PyInt0(s) ==
    IF Len(s) > 2 /\ s[1] = "0" /\ s[2] \in {"x", "X"}
    THEN ParseDigits(SubSeq(s, 3, Len(s)), 16, 0)
    ELSE ParseDigits(s, 10, 0)

\* f"{n:X}"
RECURSIVE HexUpper(_)
HexUpper(n) ==
    IF n < 16 THEN <<HexDigits[n + 1]>>
    ELSE HexUpper(n \div 16) \o <<HexDigits[(n % 16) + 1]>>

\* d[k] = v on a dict.
DictSet(d, k, v) == [x \in DOMAIN d \cup {k} |-> IF x = k THEN v ELSE d[x]]

EmptyDict == [x \in {} |-> 0]

\* d[k] = v on an OrderedDict kept as a list of <<key, value>>: a key already
\* present keeps its place.
OrderedSet(od, k, v) ==
    IF \E n \in 1..Len(od) : od[n][1] = k
    THEN [n \in 1..Len(od) |-> IF od[n][1] = k THEN <<k, v>> ELSE od[n]]
    ELSE Append(od, <<k, v>>)

\* OrderedDict.update(pairs), pairs in their own order.
RECURSIVE OrderedUpdate(_, _)
OrderedUpdate(od, pairs) ==
    IF pairs = <<>> THEN od
    ELSE OrderedUpdate(OrderedSet(od, pairs[1][1], pairs[1][2]), Tail(pairs))

\* An input file: whether os.path.exists() finds it, and its readlines().
NoFile == [exists |-> FALSE, lines |-> <<>>]
File(lines) == [exists |-> TRUE, lines |-> lines]

----------------------------------------------------------------------------
(* write_ldscript and write_ld_addrs_h                                     *)

\* The generator of line 29, one element: s.replace("\n", "\n    ").
IndentContinuation(s) == Replace(s, "\n", <<"\n"," "," "," "," ">>)

\* The text write_ldscript writes to <basename>.ld for the list `sections`.
write_ldscript(sections) ==
    <<"S","E","C","T","I","O","N","S","\n","{","\n">>
    \o Join(<<"\n"," "," "," "," ">>, [k \in 1..Len(sections) |-> IndentContinuation(sections[k])])
    \o <<"\n","}","\n">>

\* The seven writes of one iteration of the loop of write_ld_addrs_h.
HeaderEntry(symbol, addr) ==
    <<"e","x","t","e","r","n"," ","v","o","i","d","*"," ">> \o symbol \o <<";","\n">>
    \o <<"#","d","e","f","i","n","e"," ","L","D","_">> \o symbol \o <<" ">> \o <<"0","x">> \o HexUpper(addr) \o <<"\n">>
    \o <<"\n">>

RECURSIVE HeaderEntries(_)
HeaderEntries(symbols) ==
    IF symbols = <<>> THEN <<>>
    ELSE HeaderEntry(symbols[1][1], symbols[1][2]) \o HeaderEntries(Tail(symbols))

\* The text write_ld_addrs_h writes for the ordered mapping `symbols`.
write_ld_addrs_h(symbols) ==
    <<"#","i","f","n","d","e","f"," ","_","S","P","L","A","T","_","L","D","_","A","D","D","R","S","_","H","_","\n","#","d","e","f","i","n","e"," ","_","S","P","L","A","T","_","L","D","_","A","D","D","R","S","_","H","_","\n","\n">>
    \o HeaderEntries(symbols)
    \o <<"#","e","n","d","i","f","\n">>

----------------------------------------------------------------------------
(* gather_c_funcs                                                          *)

\* The state of gather_c_funcs: the pair it returns.
NoFuncs == [funcs |-> EmptyDict, labels_to_add |-> {}]

\* One iteration of the loop over include/functions.h (lines 72-83).
FuncsHeaderLine(st, line) ==
    IF StartsWith(line, <<"/","*"," ","0","x">>)
    THEN LET line_split   == Split(Strip(line), " ")
             addr_comment == line_split[2]
             addr         == PyInt0(PySlice(addr_comment, 0, 10))
             name         == PySlice(line_split[5], 0, Find(line_split[5], "("))
             marked       == Len(addr_comment) > 10 /\ addr_comment[11] = "!"
         IN  [funcs         |-> DictSet(st.funcs, addr, name),
              labels_to_add |-> IF marked THEN st.labels_to_add \cup {name}
                                ELSE st.labels_to_add]
    ELSE st

\* One iteration of the loop over tools/symbol_addrs.txt (lines 91-99).
SymbolAddrsLine(st, line) ==
    LET line_split == Split(Strip(line), ";")
        raw        == line_split[1]
        flagged    == StartsWith(raw, <<"!">>)
        name       == IF flagged THEN PySliceFrom(raw, 1) ELSE raw
        addr       == PyInt0(line_split[2])
    IN  [funcs         |-> DictSet(st.funcs, addr, name),
         labels_to_add |-> IF flagged THEN st.labels_to_add \cup {name}
                           ELSE st.labels_to_add]

RECURSIVE FoldFuncsHeader(_, _)
FoldFuncsHeader(st, lines) ==
    IF lines = <<>> THEN st
    ELSE FoldFuncsHeader(FuncsHeaderLine(st, lines[1]), Tail(lines))

RECURSIVE FoldSymbolAddrs(_, _)
FoldSymbolAddrs(st, lines) ==
    IF lines = <<>> THEN st
    ELSE FoldSymbolAddrs(SymbolAddrsLine(st, lines[1]), Tail(lines))

\* The two sources in the order gather_c_funcs reads them: functions.h, then
\* symbol_addrs.txt over its result.
FuncsSourcesInOrder(header, manual) ==
    FoldSymbolAddrs(FoldFuncsHeader(NoFuncs, header), manual)

\* gather_c_funcs(repo_path): [funcs, labels_to_add], the pair it returns. A
\* file that does not exist contributes nothing (lines 68, 87).
gather_c_funcs(header_file, manual_file) ==
    FuncsSourcesInOrder(IF header_file.exists THEN header_file.lines ELSE <<>>,
                        IF manual_file.exists THEN manual_file.lines ELSE <<>>)

----------------------------------------------------------------------------
(* gather_c_variables                                                      *)

\* re.search(r'[\\[;]', s).start(): the 0-based index of the first of the
\* characters \, [ and ; in s.
SearchNameEnd(s) ==
    (CHOOSE k \in 1..Len(s) :
        /\ s[k] \in {"\\", "[", ";"}
        /\ \A j \in 1..(k - 1) : s[j] \notin {"\\", "[", ";"}) - 1

\* One iteration of the loop over include/variables.h (lines 112-120).
VarsHeaderLine(vs, line) ==
    IF StartsWith(line, <<"/","*"," ","0","x">>)
    THEN LET line_split   == Split(Strip(line), " ")
             addr_comment == line_split[2]
             addr         == PyInt0(addr_comment)
             last         == line_split[Len(line_split)]
             name         == PySlice(last, 0, SearchNameEnd(last))
         IN  DictSet(vs, addr, name)
    ELSE vs

\* One iteration of the loop over undefined_syms.txt (lines 127-133).
UndefinedSymsLine(vs, raw_line) ==
    LET line == Strip(raw_line)
    IN  IF line # <<>> /\ ~StartsWith(line, <<"/","/">>)
        THEN LET line_split == Split(line, "=")
                 name       == Strip(line_split[1])
                 addr       == PyInt0(PySlice(Strip(line_split[2]), 0, -1))
             IN  DictSet(vs, addr, name)
        ELSE vs

RECURSIVE FoldVarsHeader(_, _)
FoldVarsHeader(vs, lines) ==
    IF lines = <<>> THEN vs
    ELSE FoldVarsHeader(VarsHeaderLine(vs, lines[1]), Tail(lines))

RECURSIVE FoldUndefinedSyms(_, _)
FoldUndefinedSyms(vs, lines) ==
    IF lines = <<>> THEN vs
    ELSE FoldUndefinedSyms(UndefinedSymsLine(vs, lines[1]), Tail(lines))

\* A variant of VarsSourcesInOrder: undefined_syms.txt read first.
VarsSourcesManualFirst(header, manual) ==
    FoldVarsHeader(FoldUndefinedSyms(EmptyDict, manual), header)

\* The two sources in the order gather_c_variables reads them.
VarsSourcesInOrder(header, manual) ==
    FoldUndefinedSyms(FoldVarsHeader(EmptyDict, header), manual)

\* gather_c_variables(repo_path): the dict it returns.
gather_c_variables(header_file, manual_file) ==
    VarsSourcesInOrder(IF header_file.exists THEN header_file.lines ELSE <<>>,
                       IF manual_file.exists THEN manual_file.lines ELSE <<>>)

----------------------------------------------------------------------------
(* Bounds and the inputs of a run                                          *)

\* The most descriptors a config lists before its end marker.
MaxSegs == 3
\* The most lines a symbol source file holds.
MaxLines == 2
\* The most fragments handed to write_ldscript, and the most characters of one.
MaxFrags == 2
MaxFragLen == 2

\* All lists of at most n elements of S.
SeqsUpTo(S, n) == UNION {[1..k -> S] : k \in 0..n}

\* Lines of include/functions.h: declarations of 0x1000, 0x2000 (marked)
\* and 0x3000 (marked), and a line without the address comment.
FuncsHeaderLines ==
    { <<"/","*"," ","0","x","0","0","0","0","1","0","0","0"," ","*","/"," ","v","o","i","d"," ","a","(","v","o","i","d",")",";","\n">>,
      <<"/","*"," ","0","x","0","0","0","0","2","0","0","0","!"," ","*","/"," ","s","3","2"," ","c","(","s","3","2"," ","x",")",";","\n">>,
      <<"/","*"," ","0","x","0","0","0","0","3","0","0","0","!"," ","*","/"," ","v","o","i","d"," ","d","(","v","o","i","d",")",";","\n">>,
      <<"v","o","i","d"," ","e","(","v","o","i","d",")",";","\n">> }

\* Lines of tools/symbol_addrs.txt: name;address; with an optional ! prefix;
\* 8192 is 0x2000.
SymbolAddrsLines ==
    { <<"b",";","0","x","0","0","0","0","1","0","0","0",";","\n">>,
      <<"a",";","8","1","9","2",";","\n">>,
      <<"!","f",";","0","x","0","0","0","0","3","0","0","0",";","\n">>,
      <<"!","c",";","0","x","4","0","0","0",";","\n">> }

\* Lines of include/variables.h.
VarsHeaderLines ==
    { <<"/","*"," ","0","x","0","0","0","0","1","0","0","0"," ","*","/"," ","e","x","t","e","r","n"," ","s","3","2"," ","a",";","\n">>,
      <<"/","*"," ","0","x","0","0","0","0","1","0","0","0"," ","*","/"," ","e","x","t","e","r","n"," ","u","8"," ","c","[","1","6","]",";","\n">>,
      <<"/","*"," ","0","x","0","0","0","0","2","0","0","0"," ","*","/"," ","e","x","t","e","r","n"," ","s","3","2"," ","d",";","\n">>,
      <<"e","x","t","e","r","n"," ","s","3","2"," ","e",";","\n">> }

\* Lines of undefined_syms.txt: name = address; a comment and a blank line.
UndefinedSymsLines ==
    { <<"b"," ","="," ","0","x","0","0","0","0","1","0","0","0",";","\n">>,
      <<"/","/"," ","b"," ","="," ","0","x","0","0","0","0","2","0","0","0",";","\n">>,
      <<"\n">>,
      <<"a"," ","="," ","0","x","0","0","0","0","2","0","0","0",";","\n">> }

\* A source file: missing, or at most MaxLines of the given lines.
SourceFiles(lines) == {NoFile} \cup {File(ls) : ls \in SeqsUpTo(lines, MaxLines)}

\* options["modes"]: argparse's default is the str "all", --modes gives a list.
DefaultModes == [is_str |-> TRUE, str |-> <<"a","l","l">>, list |-> <<>>]
ModesList(l) == [is_str |-> FALSE, str |-> <<>>, list |-> l]

\* x in options["modes"]: a substring test on a str, membership on a list.
InModes(x, modes) ==
    IF modes.is_str
    THEN \E k \in 0..(Len(modes.str) - Len(x)) :
            SubSeq(modes.str, k + 1, k + Len(x)) = x
    ELSE \E k \in 1..Len(modes.list) : modes.list[k] = x

\* The kinds and names a descriptor may carry.
SegTypes == { <<"c","o","d","e">>, <<"b","i","n">>, <<"i","m","g">> }
SegNames == { <<"m","a","i","n">>, <<"b","o","o","t">> }

\* The start of the k-th config entry: ascending, or out of order (the
\* engine neither sorts nor validates the order).
StartAt(layout, k) ==
    IF layout = "ascending" THEN 4096 * k ELSE 4096 * (MaxSegs + 2 - k)

\* config['segments']: n descriptors [start, type, name] and the end marker
\* [start], a single-field entry.
ConfigsOf(n, layout) ==
    { [k \in 1..(n + 1) |->
          IF k = n + 1 THEN <<StartAt(layout, k)>>
          ELSE <<StartAt(layout, k), tn[k][1], tn[k][2]>>] :
      tn \in [1..n -> SegTypes \X SegNames] }

Configs(layout) == UNION {ConfigsOf(n, layout) : n \in 0..MaxSegs}

\* The options, symbol sources and order of starts the segment loop is
\* explored under.
Environments ==
    { [options |-> [modes |-> DefaultModes, has_ld_addrs_header |-> TRUE],
       funcs_h |-> File(<< <<"/","*"," ","0","x","0","0","0","0","1","0","0","0"," ","*","/"," ","v","o","i","d"," ","a","(","v","o","i","d",")",";","\n">> >>),
       symbol_addrs_txt |-> NoFile,
       layout |-> "ascending"],
      [options |-> [modes |-> ModesList(<< <<"l","d">> >>), has_ld_addrs_header |-> FALSE],
       funcs_h |-> NoFile,
       symbol_addrs_txt |-> File(<< <<"!","f",";","0","x","0","0","0","0","3","0","0","0",";","\n">> >>),
       layout |-> "descending"],
      [options |-> [modes |-> ModesList(<< <<"c","o","d","e">> >>), has_ld_addrs_header |-> TRUE],
       funcs_h |-> NoFile,
       symbol_addrs_txt |-> NoFile,
       layout |-> "ascending"] }

\* Fragments of the alphabet A, B, newline, and the lists of them.
Fragments == SeqsUpTo({"A", "B", "\n"}, MaxFragLen)
FragmentLists == SeqsUpTo(Fragments, MaxFrags)

----------------------------------------------------------------------------
(* The segment plugins (package segtypes), as far as main relies on them   *)

\* parse_segment_type(segment) of segtypes.segment: the descriptor's kind.
parse_segment_type(segment) == segment[2]

\* "N64Seg" + seg_type[0].upper() + seg_type[1:]   (line 173)
SegmentClassName(seg_type) ==
    <<"N","6","4","S","e","g">> \o Upper(PySlice(seg_type, 0, 1)) \o PySliceFrom(seg_type, 1)

N64SegCode == <<"N","6","4","S","e","g","C","o","d","e">>

\* The class attribute require_unique_name of each segment class.
require_unique_name(segment_class) == segment_class \in { <<"N","6","4","S","e","g","C","o","d","e">>, <<"N","6","4","S","e","g","B","i","n">> }

\* The start of a raw descriptor, as the constructor reads it.
parse_segment_start(segment) == segment[1]

\* segment_class(segment, next_segment, options): the object constructed,
\* with the two descriptors it was constructed from.
N64Segment(segment_class, segment, next_segment) ==
    [cls            |-> segment_class,
     segment        |-> segment,
     next_segment   |-> next_segment,
     type           |-> segment[2],
     name           |-> segment[3],
     rom_start      |-> parse_segment_start(segment),
     rom_end        |-> parse_segment_start(next_segment),
     injected       |-> FALSE,
     glabels_added  |-> {},
     glabels_to_add |-> {}]

\* What a split() leaves in the segment and what its get_ld_section() then
\* returns: the labels emitted, the labels needed, the fragment and the
\* symbols to publish (a dict, in its order).
SplitOutcomes ==
    { [glabels_added  |-> {},
       glabels_to_add |-> {},
       ld_section     |-> <<"A">>,
       ld_symbols     |-> <<>>],
      [glabels_added  |-> { <<"f","u","n","c","_","0","0","0","0","1","0","0","0">> },
       glabels_to_add |-> { <<"f","u","n","c","_","0","0","0","0","2","0","0","a">>, <<"F","u","n","c","_","0","0","0","0","3","0","0","0">>, <<"f","u","n","c","_","8","0","0","0","1","0","0","0">> },
       ld_section     |-> <<"B","\n","C","\n">>,
       ld_symbols     |-> << << <<"s","1">>, 4096 >> >>],
      [glabels_added  |-> { <<"f","u","n","c","_","0","0","0","0","2","0","0","a">> },
       glabels_to_add |-> { <<"f","u","n","c","_","0","0","0","0","1","0","0","0">>, <<"o","s","F","o","o">> },
       ld_section     |-> <<"C","\n">>,
       ld_symbols     |-> << << <<"s","2">>, 8202 >>, << <<"s","1">>, 43981 >> >>] }

----------------------------------------------------------------------------
(* main                                                                    *)

NotWritten == [exists |-> FALSE, text |-> <<>>]
Written(text) == [exists |-> TRUE, text |-> text]
NoFiles == [ld |-> NotWritten, ld_addrs_h |-> NotWritten, undefined_funcs_txt |-> NotWritten]

\* A plugin method main invoked: the segment (its place in `segments`),
\* whether the method raised, and what it could see: for split(), whether
\* all_functions was set and the set it refers to; for postsplit(), the
\* list it was passed.
Call(op, seg, raised, given, all_functions, all_segments) ==
    [op |-> op, seg |-> seg, raised |-> raised, given |-> given,
     all_functions |-> all_functions, all_segments |-> all_segments]

\* The state at the top of main, for the given inputs and fragment list.
StartWith(cfg, opts, fh, sa, vh, us, sections) ==
    /\ config = cfg
    /\ options = opts
    /\ funcs_h = fh
    /\ symbol_addrs_txt = sa
    /\ variables_h = vh
    /\ undefined_syms_txt = us
    /\ c_funcs = EmptyDict
    /\ c_func_labels_to_add = {}
    /\ c_vars = EmptyDict
    /\ segments = <<>>
    /\ ld_sections = sections
    /\ ld_symbols = <<>>
    /\ seen_segment_names = {}
    /\ defined_funcs = {}
    /\ undefined_funcs = {}
    /\ i = 0
    /\ calls = <<>>
    /\ artifacts = {}
    /\ files = NoFiles

\* Lines 156-162: main starts with empty lists and sets.
Start(cfg, opts, fh, sa, vh, us) == StartWith(cfg, opts, fh, sa, vh, us, <<>>)

Inputs == <<config, options, funcs_h, symbol_addrs_txt, variables_h, undefined_syms_txt>>
Tables == <<c_funcs, c_func_labels_to_add, c_vars>>

\* Line 153: c_funcs, c_func_labels_to_add = gather_c_funcs(repo_path)
GatherFuncs ==
    /\ pc = "gather_funcs"
    /\ LET r == gather_c_funcs(funcs_h, symbol_addrs_txt)
       IN  /\ c_funcs' = r.funcs
           /\ c_func_labels_to_add' = r.labels_to_add
    /\ pc' = "gather_vars"
    /\ UNCHANGED <<Inputs, c_vars, segments, ld_sections, ld_symbols,
                   seen_segment_names, defined_funcs, undefined_funcs, i,
                   calls, artifacts, files>>

\* Line 154: c_vars = gather_c_variables(repo_path)
GatherVars ==
    /\ pc = "gather_vars"
    /\ c_vars' = gather_c_variables(variables_h, undefined_syms_txt)
    /\ pc' = "loop"
    /\ UNCHANGED <<Inputs, c_funcs, c_func_labels_to_add, segments, ld_sections,
                   ld_symbols, seen_segment_names, defined_funcs,
                   undefined_funcs, i, calls, artifacts, files>>

\* A variant of NextRawDescriptor: the descriptor itself as its own end.
NextRawDescriptorSame(cfg, k) == cfg[k + 1]

\* config['segments'][i] and config['segments'][i + 1] for the 0-based i of
\* the loop (lines 165, 175).
RawDescriptor(cfg, k) == cfg[k + 1]
NextRawDescriptor(cfg, k) == cfg[k + 2]

\* Lines 166-168: a single-field entry constructs nothing.
SkipEndMarker ==
    /\ pc = "loop"
    /\ i < Len(config)
    /\ Len(RawDescriptor(config, i)) = 1
    /\ i' = i + 1
    /\ UNCHANGED <<Inputs, Tables, segments, ld_sections, ld_symbols,
                   seen_segment_names, defined_funcs, undefined_funcs, pc,
                   calls, artifacts, files>>

\* A variant of NameCollides: the class attribute is not consulted.
NameCollidesAnyClass(segment_class, name, seen) == name \in seen

\* Lines 178-179: the name of a segment of this class was seen before.
NameCollides(segment_class, name, seen) ==
    require_unique_name(segment_class) /\ name \in seen

\* Lines 170-188: construct the segment, append it, check its name against
\* the names seen, and hand a code segment the shared tables.
Construct ==
    /\ pc = "loop"
    /\ i < Len(config)
    /\ Len(RawDescriptor(config, i)) # 1
    /\ LET raw           == RawDescriptor(config, i)
           segment_class == SegmentClassName(parse_segment_type(raw))
           segment       == N64Segment(segment_class, raw, NextRawDescriptor(config, i))
       IN  IF NameCollides(segment_class, segment.name, seen_segment_names)
           THEN \* print("ERROR: ..."); exit(1)
                /\ segments' = Append(segments, segment)
                /\ pc' = "exit"
                /\ UNCHANGED seen_segment_names
           ELSE /\ segments' = Append(segments,
                       [segment EXCEPT !.injected = (segment_class = N64SegCode)])
                /\ seen_segment_names' =
                       IF require_unique_name(segment_class)
                       THEN seen_segment_names \cup {segment.name}
                       ELSE seen_segment_names
                /\ pc' = "check"
    /\ UNCHANGED <<Inputs, Tables, ld_sections, ld_symbols, defined_funcs,
                   undefined_funcs, i, calls, artifacts, files>>

\* Line 193: segment.check() returns.
CheckPasses ==
    /\ pc = "check"
    /\ calls' = Append(calls, Call("check", Len(segments), FALSE, FALSE, {}, <<>>))
    /\ pc' = "split"
    /\ UNCHANGED <<Inputs, Tables, segments, ld_sections, ld_symbols,
                   seen_segment_names, defined_funcs, undefined_funcs, i,
                   artifacts, files>>

\* A variant of CheckFails: the exception is swallowed and main goes on.
CheckFailsSwallowed ==
    /\ pc = "check"
    /\ calls' = Append(calls, Call("check", Len(segments), TRUE, FALSE, {}, <<>>))
    /\ pc' = "split"
    /\ UNCHANGED <<Inputs, Tables, segments, ld_sections, ld_symbols,
                   seen_segment_names, defined_funcs, undefined_funcs, i,
                   artifacts, files>>

\* Line 193: segment.check() raises; main handles no exception.
CheckFails ==
    /\ pc = "check"
    /\ calls' = Append(calls, Call("check", Len(segments), TRUE, FALSE, {}, <<>>))
    /\ pc' = "raised"
    /\ UNCHANGED <<Inputs, Tables, segments, ld_sections, ld_symbols,
                   seen_segment_names, defined_funcs, undefined_funcs, i,
                   artifacts, files>>

\* A variant of FoldLabels: the labels of a segment of any class are folded.
FoldLabelsAnyClass(segment_class, acc, labels) == acc \cup labels

\* Lines 196-198: acc |= labels, for a segment whose type is N64SegCode.
FoldLabels(segment_class, acc, labels) ==
    IF segment_class = N64SegCode THEN acc \cup labels ELSE acc

\* One iteration of the loop of lines 202-203.
SymbolAssignment(symbol, addr) ==
    symbol \o <<" ","="," ","0","x">> \o HexUpper(addr) \o <<";","\n">>

\* Lines 200-203: the fragment with a line for each symbol appended.
RECURSIVE SectionWithSymbols(_, _)
SectionWithSymbols(ld_section, seg_ld_symbols) ==
    IF seg_ld_symbols = <<>> THEN ld_section
    ELSE SectionWithSymbols(
             ld_section \o SymbolAssignment(seg_ld_symbols[1][1], seg_ld_symbols[1][2]),
             Tail(seg_ld_symbols))

\* Lines 194-206: split the segment, fold its labels, take its fragment.
SplitSegment ==
    /\ pc = "split"
    /\ \E o \in SplitOutcomes :
          LET n   == Len(segments)
              seg == segments[n]
          IN  /\ calls' = Append(calls,
                     Call("split", n, FALSE, seg.injected,
                          IF seg.injected THEN defined_funcs ELSE {}, <<>>))
              /\ artifacts' = artifacts \cup {n}
              /\ segments' = [segments EXCEPT
                                 ![n].glabels_added = o.glabels_added,
                                 ![n].glabels_to_add = o.glabels_to_add]
              /\ defined_funcs' = FoldLabels(seg.cls, defined_funcs, o.glabels_added)
              /\ undefined_funcs' = FoldLabels(seg.cls, undefined_funcs, o.glabels_to_add)
              /\ ld_sections' = Append(ld_sections,
                                       SectionWithSymbols(o.ld_section, o.ld_symbols))
              /\ ld_symbols' = OrderedUpdate(ld_symbols, o.ld_symbols)
    /\ i' = i + 1
    /\ pc' = "loop"
    /\ UNCHANGED <<Inputs, Tables, seen_segment_names, files>>

\* A variant of LoopFinished: the loop may end after its first entry.
LoopFinishedEarly(k, cfg) == k >= 1

\* The loop of lines 165-206 has visited every entry of the config.
LoopFinished(k, cfg) == k = Len(cfg)

\* The loop of line 165 ends; the loop of line 208 starts (i counts it).
EndLoop ==
    /\ pc = "loop"
    /\ LoopFinished(i, config)
    /\ i' = 0
    /\ pc' = "postsplit"
    /\ UNCHANGED <<Inputs, Tables, segments, ld_sections, ld_symbols,
                   seen_segment_names, defined_funcs, undefined_funcs, calls,
                   artifacts, files>>

\* Line 209: segment.postsplit(segments)
PostSplit ==
    /\ pc = "postsplit"
    /\ i < Len(segments)
    /\ calls' = Append(calls, Call("postsplit", i + 1, FALSE, FALSE, {}, segments))
    /\ i' = i + 1
    /\ UNCHANGED <<Inputs, Tables, segments, ld_sections, ld_symbols,
                   seen_segment_names, defined_funcs, undefined_funcs, pc,
                   artifacts, files>>

\* Lines 212-216: the linker script and the address header.
WriteLd ==
    /\ pc = "postsplit"
    /\ i = Len(segments)
    /\ files' =
         IF InModes(<<"l","d">>, options.modes) \/ InModes(<<"a","l","l">>, options.modes)
         THEN [files EXCEPT
                  !.ld = Written(write_ldscript(ld_sections)),
                  !.ld_addrs_h = IF options.has_ld_addrs_header
                                 THEN Written(write_ld_addrs_h(ld_symbols))
                                 ELSE @]
         ELSE files
    /\ pc' = "report"
    /\ UNCHANGED <<Inputs, Tables, segments, ld_sections, ld_symbols,
                   seen_segment_names, defined_funcs, undefined_funcs, i,
                   calls, artifacts>>

\* name == addr for a str and an int: Python finds them unequal.
StrEqualsInt(name, addr) == FALSE

\* undefined_funcs - defined_funcs - c_predefined_funcs (line 220), where
\* c_predefined_funcs = set(c_funcs.keys()) is a set of int (line 219).
Unresolved(required, defined, c_predefined_funcs) ==
    {name \in required \ defined :
        ~\E addr \in c_predefined_funcs : StrEqualsInt(name, addr)}

\* Line 224: line + " = 0x" + line[5:13].upper() + ";\n"
ReportLine(line) ==
    line \o <<" ","="," ","0","x">> \o Upper(PySlice(line, 5, 13)) \o <<";","\n">>

\* A variant of SortNames: the names ordered by the address text in them.
RECURSIVE SortNamesByAddress(_)
SortNamesByAddress(S) ==
    IF S = {} THEN <<>>
    ELSE LET m == CHOOSE x \in S : \A y \in S \ {x} :
                      \/ StrLess(PySlice(x, 5, 13), PySlice(y, 5, 13))
                      \/ PySlice(x, 5, 13) = PySlice(y, 5, 13) /\ StrLess(x, y)
         IN  <<m>> \o SortNamesByAddress(S \ {m})

\* sorted(...) of line 220.
SortNames(S) == Sorted(S)

\* Lines 219-224: undefined_funcs.txt, written when a name is left.
WriteReport ==
    /\ pc = "report"
    /\ LET to_write == SortNames(Unresolved(undefined_funcs, defined_funcs, DOMAIN c_funcs))
       IN  files' =
             IF Len(to_write) > 0
             THEN [files EXCEPT !.undefined_funcs_txt =
                      Written(Join(<<>>, [k \in 1..Len(to_write) |-> ReportLine(to_write[k])]))]
             ELSE files
    /\ pc' = "done"
    /\ UNCHANGED <<Inputs, Tables, segments, ld_sections, ld_symbols,
                   seen_segment_names, defined_funcs, undefined_funcs, i,
                   calls, artifacts>>

\* A run of main over a config, under one of the environments.
Init ==
    /\ pc = "gather_funcs"
    /\ \E env \in Environments :
          \E cfg \in Configs(env.layout) :
              Start(cfg, env.options, env.funcs_h, env.symbol_addrs_txt, NoFile, NoFile)

Next ==
    \/ GatherFuncs
    \/ GatherVars
    \/ SkipEndMarker
    \/ Construct
    \/ CheckPasses
    \/ CheckFails
    \/ SplitSegment
    \/ EndLoop
    \/ PostSplit
    \/ WriteLd
    \/ WriteReport

Spec == Init /\ [][Next]_vars

\* The start of main over the symbol sources: the function sources with no
\* variable sources, or the variable sources with no function sources.
SymbolOptions == [modes |-> DefaultModes, has_ld_addrs_header |-> FALSE]

InitSym ==
    /\ pc = "gather_funcs"
    /\ \/ \E fh \in SourceFiles(FuncsHeaderLines), sa \in SourceFiles(SymbolAddrsLines) :
             Start(<< <<4096>> >>, SymbolOptions, fh, sa, NoFile, NoFile)
       \/ \E vh \in SourceFiles(VarsHeaderLines), us \in SourceFiles(UndefinedSymsLines) :
             Start(<< <<4096>> >>, SymbolOptions, NoFile, NoFile, vh, us)

NextSym ==
    \/ GatherFuncs
    \/ GatherVars

SpecSym == InitSym /\ [][NextSym]_vars

\* write_ldscript called on a list of fragments.
InitLd ==
    /\ pc = "call_write_ldscript"
    /\ \E sections \in FragmentLists :
          StartWith(<< <<4096>> >>, SymbolOptions, NoFile, NoFile, NoFile, NoFile, sections)

CallWriteLdscript ==
    /\ pc = "call_write_ldscript"
    /\ files' = [files EXCEPT !.ld = Written(write_ldscript(ld_sections))]
    /\ pc' = "returned"
    /\ UNCHANGED <<Inputs, Tables, segments, ld_sections, ld_symbols,
                   seen_segment_names, defined_funcs, undefined_funcs, i,
                   calls, artifacts>>

NextLd == CallWriteLdscript

SpecLd == InitLd /\ [][NextLd]_vars

----------------------------------------------------------------------------
(* Properties                                                              *)

IsEndMarker(d) == Len(d) = 1

\* The last entry is the end marker and no other entry is one.
WellFormed(cfg) ==
    /\ Len(cfg) >= 1
    /\ IsEndMarker(cfg[Len(cfg)])
    /\ \A k \in 1..(Len(cfg) - 1) : ~IsEndMarker(cfg[k])

\* The number of descriptors that are not the end marker.
DescriptorCount(cfg) == Cardinality({k \in 1..Len(cfg) : ~IsEndMarker(cfg[k])})

\* The segment loop has ended normally.
LoopDone == pc \in {"postsplit", "report", "done"}

IsPostSplit(c) == c.op = "postsplit"
PostSplitCalls == SelectSeq(calls, IsPostSplit)

(* C1: for a config whose last entry is the end marker and whose other     *)
(* entries are descriptors, the segments constructed are, in config order, *)
(* one per descriptor (all of them once the loop has ended), segment k     *)
(* built from descriptor k with the start of entry k+1 as its rom_end; the *)
(* end marker gives no segment.                                            *)
C1_SegmentPerDescriptor ==
    WellFormed(config) =>
        /\ Len(segments) <= Len(config) - 1
        /\ \A k \in 1..Len(segments) :
              /\ segments[k].segment = config[k]
              /\ segments[k].next_segment = config[k + 1]
              /\ segments[k].type = config[k][2]
              /\ segments[k].name = config[k][3]
              /\ segments[k].rom_start = config[k][1]
              /\ segments[k].rom_end = config[k + 1][1]
        /\ (LoopDone => Len(segments) = Len(config) - 1)

\* Starts 0x1000, 0x2000 and the end marker 0x3000 gave [0x1000,0x2000) and
\* [0x2000,0x3000).
C1_Witness ==
    /\ pc = "done"
    /\ Len(config) = 3
    /\ config[1][1] = 4096 /\ config[2][1] = 8192 /\ config[3] = <<12288>>
    /\ Len(segments) = 2
    /\ segments[2].next_segment = <<12288>>
    /\ segments[1].rom_start = 4096 /\ segments[1].rom_end = 8192
    /\ segments[2].rom_start = 8192 /\ segments[2].rom_end = 12288

\* Segment k carries the name of an earlier segment, both of classes that
\* require a unique name.
Repeats(k) ==
    /\ require_unique_name(segments[k].cls)
    /\ \E j \in 1..(k - 1) :
          require_unique_name(segments[j].cls) /\ segments[j].name = segments[k].name

(* C2: once a segment is constructed whose name repeats that of an earlier *)
(* segment, both of classes with require_unique_name, the run has exited   *)
(* at that segment and nothing runs after; no check(), split() or          *)
(* postsplit() is ever invoked on that segment or a later one; and the run *)
(* exits this way only at such a segment, never for the name of a segment  *)
(* whose class does not require a unique name.                             *)
C2_DuplicateNameAborts ==
    /\ \A k \in 1..Len(segments) :
          Repeats(k) => pc = "exit" /\ k = Len(segments)
    /\ \A n \in 1..Len(calls) :
          ~\E k \in 1..calls[n].seg : Repeats(k)
    /\ (pc = "exit" => Repeats(Len(segments)) /\ ~ENABLED Next)

\* Three descriptors, the first two named "main" and of classes requiring a
\* unique name: the run exited at the second, after the first was checked
\* and split, and the third was never constructed.
C2_Witness ==
    /\ pc = "exit"
    /\ Len(config) = 4
    /\ Len(segments) = 2
    /\ config[1][3] = <<"m","a","i","n">> /\ config[2][3] = <<"m","a","i","n">>
    /\ segments[1].name = <<"m","a","i","n">> /\ segments[2].name = <<"m","a","i","n">>
    /\ Len(calls) = 2
    /\ calls[2].op = "split" /\ calls[2].seg = 1

(* C3: a postsplit() is invoked only after the loop has constructed a      *)
(* segment for every descriptor and split() has returned for each of them, *)
(* and it is passed the complete list; the postsplit() calls go through    *)
(* the segments in config order, and once the pass is over there is        *)
(* exactly one per segment.                                                *)
C3_PostSplitBarrier ==
    /\ \A n \in 1..Len(calls) :
          calls[n].op = "postsplit" =>
              /\ Len(segments) = DescriptorCount(config)
              /\ \A k \in 1..Len(segments) :
                    \E m \in 1..(n - 1) :
                        calls[m].op = "split" /\ calls[m].seg = k /\ ~calls[m].raised
              /\ calls[n].all_segments = segments
    /\ \A n \in 1..Len(PostSplitCalls) : PostSplitCalls[n].seg = n
    /\ (pc \in {"report", "done"} => Len(PostSplitCalls) = Len(segments))

\* A finished run over two segments: two postsplit() calls.
C3_Witness ==
    /\ pc = "done"
    /\ Len(segments) = 2
    /\ Len(PostSplitCalls) = 2
    /\ PostSplitCalls[2].all_segments = segments

Lines(file) == IF file.exists THEN file.lines ELSE <<>>

\* The table each source gives when read alone.
AutoFuncs == FoldFuncsHeader(NoFuncs, Lines(funcs_h)).funcs
ManualFuncs == FoldSymbolAddrs(NoFuncs, Lines(symbol_addrs_txt)).funcs
AutoVars == FoldVarsHeader(EmptyDict, Lines(variables_h))
ManualVars == FoldUndefinedSyms(EmptyDict, Lines(undefined_syms_txt))

\* `table` holds the addresses of both sources, the manual name where the
\* manual source has the address and the auto name elsewhere.
ManualWins(table, auto, manual) ==
    /\ DOMAIN table = DOMAIN auto \cup DOMAIN manual
    /\ \A a \in DOMAIN manual : table[a] = manual[a]
    /\ \A a \in DOMAIN auto \ DOMAIN manual : table[a] = auto[a]

(* C4: in the function table and in the variable table, an address of both *)
(* the auto-harvested and the manual source maps to the manual source's    *)
(* name, and an address of one source keeps that source's name.            *)
C4_ManualWins ==
    /\ (pc # "gather_funcs" => ManualWins(c_funcs, AutoFuncs, ManualFuncs))
    /\ (pc \notin {"gather_funcs", "gather_vars"} =>
            ManualWins(c_vars, AutoVars, ManualVars))

\* Auto {0x1000: "a"} and manual {0x1000: "b"} merged to {0x1000: "b"}.
C4_Witness ==
    /\ pc = "gather_vars"
    /\ DOMAIN AutoFuncs = {4096} /\ AutoFuncs[4096] = <<"a">>
    /\ DOMAIN ManualFuncs = {4096} /\ ManualFuncs[4096] = <<"b">>
    /\ DOMAIN c_funcs = {4096} /\ c_funcs[4096] = <<"b">>

\* The lines of a text: its pieces between newlines, without the empty piece
\* after the last newline.
TextLines(text) ==
    LET pieces == Split(text, "\n")
    IN  IF pieces[Len(pieces)] = <<>> THEN SubSeq(pieces, 1, Len(pieces) - 1) ELSE pieces

ReportFile == files.undefined_funcs_txt
ReportLines == IF ReportFile.exists THEN TextLines(ReportFile.text) ELSE <<>>

\* The name a report line starts with.
LineName(line) == Split(line, " ")[1]
ReportedNames == {LineName(ReportLines[k]) : k \in 1..Len(ReportLines)}

\* n as eight upper-case hexadecimal digits.
Hex8(n) ==
    LET h == HexUpper(n)
    IN  [k \in 1..(8 - Len(h)) |-> "0"] \o h

\* The address in the name is an address of the function table.
KnownByAddress(name) ==
    \E a \in DOMAIN c_funcs : Hex8(a) = Upper(PySlice(name, 5, 13))

(* C5: the report holds a required label exactly when no code segment      *)
(* defined it and its address is not in the function table, and there is   *)
(* no report file when no such label is left.                              *)
C5_ReportSkipsKnownAddresses ==
    pc = "done" =>
        LET left == {n \in undefined_funcs : n \notin defined_funcs /\ ~KnownByAddress(n)}
        IN  /\ ReportedNames = left
            /\ ReportFile.exists <=> left # {}

RECURSIVE IndentedLines(_)
IndentedLines(lines) ==
    IF lines = <<>> THEN <<>>
    ELSE <<" "," "," "," ">> \o lines[1] \o <<"\n">> \o IndentedLines(Tail(lines))

RECURSIVE IndentedFragments(_)
IndentedFragments(sections) ==
    IF sections = <<>> THEN <<>>
    ELSE IndentedLines(Split(sections[1], "\n")) \o IndentedFragments(Tail(sections))

(* C6: for a non-empty list of fragments the linker script is              *)
(* "SECTIONS\n{\n", every line of every fragment behind four spaces, the   *)
(* first line of the first fragment included, and "}\n".                   *)
C6_EveryLineIndented ==
    pc = "returned" /\ ld_sections # <<>> =>
        files.ld.text = <<"S","E","C","T","I","O","N","S","\n","{","\n">> \o IndentedFragments(ld_sections) \o <<"}","\n">>

\* a sorts before b: at the first place they differ a ends, or has the
\* character of the smaller code point.
LexBefore(a, b) ==
    \E k \in 1..Len(b) :
        /\ k <= Len(a) + 1
        /\ \A j \in 1..(k - 1) : a[j] = b[j]
        /\ (k = Len(a) + 1 \/ Ord(a[k]) < Ord(b[k]))

\* The characters of the name at offsets 5 to 12, upper-cased.
AddressChars(name) ==
    [j \in 1..(Min(Len(name), 13) - Min(Len(name), 5)) |-> UpperChar(name[5 + j])]

(* C7: the report has one line for each name left unresolved, the lines    *)
(* ascend in the lexicographic order of their names, and the line of a     *)
(* name is the name, " = 0x", the characters at offsets 5 to 12 of the     *)
(* name upper-cased, and ";".                                              *)
C7_ReportLines ==
    pc = "done" =>
        /\ Len(ReportLines) = Cardinality(ReportedNames)
        /\ ReportedNames = Unresolved(undefined_funcs, defined_funcs, DOMAIN c_funcs)
        /\ \A k \in 1..(Len(ReportLines) - 1) :
              LexBefore(LineName(ReportLines[k]), LineName(ReportLines[k + 1]))
        /\ \A k \in 1..Len(ReportLines) :
              LET name == LineName(ReportLines[k])
              IN  ReportLines[k] = name \o <<" ","="," ","0","x">> \o AddressChars(name) \o <<";">>

\* Three names left, the lexicographic order not that of the addresses.
C7_Witness ==
    /\ pc = "done"
    /\ ReportFile.exists
    /\ ReportFile.text =
           <<"F","u","n","c","_","0","0","0","0","3","0","0","0"," ","="," ","0","x","0","0","0","0","3","0","0","0",";","\n","f","u","n","c","_","0","0","0","0","2","0","0","a"," ","="," ","0","x","0","0","0","0","2","0","0","A",";","\n","f","u","n","c","_","8","0","0","0","1","0","0","0"," ","="," ","0","x","8","0","0","0","1","0","0","0",";","\n">>

(* C8: a split() directly follows the check() of its segment that          *)
(* returned; when a check() raises, the run stops there: nothing is        *)
(* invoked after it, no split() of that segment or a later one and no      *)
(* postsplit() has run, main has written no file, and the artifacts of the *)
(* segments split before it are in place.                                  *)
C8_CheckFailureAborts ==
    /\ \A n \in 1..Len(calls) :
          calls[n].op = "split" =>
              /\ n > 1
              /\ calls[n - 1].op = "check"
              /\ calls[n - 1].seg = calls[n].seg
              /\ ~calls[n - 1].raised
    /\ \A n \in 1..Len(calls) :
          calls[n].raised =>
              /\ calls[n].op = "check"
              /\ n = Len(calls)
              /\ pc = "raised"
              /\ \A m \in 1..Len(calls) :
                    /\ calls[m].op # "postsplit"
                    /\ (calls[m].op = "split" => calls[m].seg < calls[n].seg)
              /\ files = NoFiles
              /\ artifacts = 1..(calls[n].seg - 1)
    /\ (pc = "raised" => calls # <<>> /\ calls[Len(calls)].raised /\ ~ENABLED Next)

\* Three descriptors: the check() of the second segment raised after the
\* first was split, and the third was never constructed.
C8_Witness ==
    /\ pc = "raised"
    /\ Len(config) = 4
    /\ Len(segments) = 2
    /\ artifacts = {1}
    /\ Len(calls) = 3
    /\ calls[3].op = "check" /\ calls[3].raised

\* The segments among the first n whose type is N64SegCode.
CodeSegments(n) == {j \in 1..n : segments[j].cls = N64SegCode}
AddedBy(J) == UNION {segments[j].glabels_added : j \in J}
NeededBy(J) == UNION {segments[j].glabels_to_add : j \in J}

C9_State ==
    /\ (pc = "gather_funcs" => defined_funcs = {} /\ undefined_funcs = {})
    /\ \A n \in 1..Len(calls) :
          calls[n].op = "split" /\ segments[calls[n].seg].cls = N64SegCode =>
              /\ calls[n].given
              /\ calls[n].all_functions = AddedBy(CodeSegments(calls[n].seg - 1))
    /\ defined_funcs = AddedBy(CodeSegments(Len(segments)))
    /\ undefined_funcs = NeededBy(CodeSegments(Len(segments)))

C9_Step ==
    /\ defined_funcs \subseteq defined_funcs'
    /\ undefined_funcs \subseteq undefined_funcs'
    /\ (pc # "split" => UNCHANGED <<defined_funcs, undefined_funcs>>)

(* C9: both sets are empty at the start; the set a code segment's split()  *)
(* is given is the union of the labels added by the code segments before   *)
(* it; the two sets are at all times the unions of the labels added and    *)
(* needed by the code segments split so far, the other segments adding     *)
(* nothing; the sets only grow, and only the split step changes them.      *)
C9_LabelSets == []C9_State /\ [][C9_Step]_vars

\* A finished run over two code segments: the split() of the second was
\* given the labels the first had added, and both sets hold the unions.
C9_Witness ==
    /\ pc = "done"
    /\ Len(segments) = 2
    /\ segments[1].cls = N64SegCode /\ segments[2].cls = N64SegCode
    /\ segments[1].glabels_added # {}
    /\ segments[2].glabels_added \ segments[1].glabels_added # {}
    /\ \E n \in 1..Len(calls) :
          /\ calls[n].op = "split" /\ calls[n].seg = 2 /\ calls[n].given
          /\ calls[n].all_functions = segments[1].glabels_added
    /\ defined_funcs = segments[1].glabels_added \cup segments[2].glabels_added

(* C10: after gather_c_funcs every name of the explicit-label set is the   *)
(* name of an entry of the function table.                                 *)
C10_LabelsNameEntries ==
    pc # "gather_funcs" =>
        \A n \in c_func_labels_to_add : \E a \in DOMAIN c_funcs : c_funcs[a] = n

====
